---- MODULE Spec2Model ----
(***************************************************************************)
(* Model of the agent loop of "session 4/paint assignment/client.py":      *)
(* the module globals (last_response, iteration, iteration_response), the  *)
(* control flow of main() and the text handling it applies to a completion *)
(* (strip, split, startswith, int, float).  Text is a sequence of          *)
(* one-character strings so that the string functions are computed.        *)
(***************************************************************************)
EXTENDS Integers, Sequences, FiniteSets, TLC

VARIABLES
    pc,                 \* position of main(): see PcValues
    last_response,      \* global last_response
    iteration,          \* global iteration
    iteration_response, \* global iteration_response (the history)
    current_query,      \* local current_query: the prompt body, a sequence of segments
    tools,              \* local tools (descriptors returned by list_tools)
    session,            \* "closed" | "open" | "released": the async-with scopes
    lines,              \* response_text.split('\n') of the current response
    li,                 \* index in lines of the line the for loop is at
    call,               \* the tool invocation in flight (func_name, arguments)
    completions,        \* number of completion calls started in this run
    invocations,        \* number of session.call_tool calls started in this run
    final_seen,         \* a FINAL_ANSWER line has been processed in this run
    exit_path,          \* how the while loop / the try block was left
    earlier_run         \* main() has run and returned before the current run

vars == <<pc, last_response, iteration, iteration_response, current_query,
          tools, session, lines, li, call, completions, invocations,
          final_seen, exit_path, earlier_run>>

-----------------------------------------------------------------------------
(* Program constants and bounds *)

max_iterations == 9

\* Largest number of history entries the completions of one run may produce.
MaxHistory == 2

-----------------------------------------------------------------------------
(* Python string functions over sequences of characters *)

Whitespace == {" ", "\t", "\n", "\r"}

Digits == <<"0", "1", "2", "3", "4", "5", "6", "7", "8", "9">>

IsDigit(c) == \E i \in 1..10 : Digits[i] = c

DigitVal(c) == (CHOOSE i \in 1..10 : Digits[i] = c) - 1

RECURSIVE lstrip(_, _)
lstrip(s, cs) ==
    IF s # <<>> /\ Head(s) \in cs THEN lstrip(Tail(s), cs) ELSE s

RECURSIVE rstrip(_, _)
rstrip(s, cs) ==
    IF s # <<>> /\ s[Len(s)] \in cs THEN rstrip(SubSeq(s, 1, Len(s) - 1), cs) ELSE s

\* str.strip(chars): removes leading and trailing characters of the set cs
strip_chars(s, cs) == rstrip(lstrip(s, cs), cs)

\* str.strip(): removes leading and trailing whitespace
strip(s) == strip_chars(s, Whitespace)

\* str.startswith(prefix)
startswith(s, p) == Len(s) >= Len(p) /\ SubSeq(s, 1, Len(p)) = p

\* index of the first occurrence of character c in s, 0 if none
RECURSIVE find(_, _, _)
find(s, c, i) ==
    IF i > Len(s) THEN 0 ELSE IF s[i] = c THEN i ELSE find(s, c, i + 1)

\* str.split(sep) for a one-character separator: always at least one piece
RECURSIVE split(_, _)
split(s, sep) ==
    LET k == find(s, sep, 1)
    IN IF k = 0 THEN <<s>>
       ELSE <<SubSeq(s, 1, k - 1)>> \o split(SubSeq(s, k + 1, Len(s)), sep)

\* str.split(sep, 1): at most one split, at the first separator
split_once(s, sep) ==
    LET k == find(s, sep, 1)
    IN IF k = 0 THEN <<s>>
       ELSE <<SubSeq(s, 1, k - 1), SubSeq(s, k + 1, Len(s))>>

\* sep.join(items)
RECURSIVE join(_, _)
join(sep, items) ==
    IF items = <<>> THEN <<>>
    ELSE IF Len(items) = 1 THEN items[1]
    ELSE items[1] \o sep \o join(sep, Tail(items))

RECURSIVE digits_value(_, _)
digits_value(s, acc) ==
    IF s = <<>> THEN acc ELSE digits_value(Tail(s), 10 * acc + DigitVal(Head(s)))

AllDigits(s) == s # <<>> /\ \A i \in 1..Len(s) : IsDigit(s[i])

\* The unsigned part of a numeric literal after its optional sign
Unsigned(s) == IF s # <<>> /\ Head(s) \in {"+", "-"} THEN Tail(s) ELSE s

Negative(s) == s # <<>> /\ Head(s) = "-"

\* int(s) for a text s over the model's alphabet: surrounding whitespace is
\* dropped, then an optional sign and one or more decimal digits are required.
\* The result is [ok |-> FALSE] where Python raises ValueError.
py_int(s) ==
    LET t == strip(s)
        u == Unsigned(t)
    IN IF AllDigits(u)
       THEN [ok |-> TRUE,
             val |-> IF Negative(t) THEN 0 - digits_value(u, 0) ELSE digits_value(u, 0)]
       ELSE [ok |-> FALSE]

\* float(s) for a text s over the model's alphabet: optional sign, digits,
\* optionally a point and more digits (at least one digit overall).  The value
\* is kept as the pair (mantissa, number of fraction digits) with trailing
\* fraction zeros removed, so that 2.50 and 2.5 are the same value.
RECURSIVE float_norm(_, _)
float_norm(m, k) ==
    IF k > 0 /\ m % 10 = 0 THEN float_norm(m \div 10, k - 1) ELSE [m |-> m, k |-> k]

py_float(s) ==
    LET t == strip(s)
        u == Unsigned(t)
        p == split(u, ".")
        ip == p[1]
        fp == IF Len(p) = 2 THEN p[2] ELSE <<>>
        wellformed == /\ Len(p) <= 2
                      /\ \A i \in 1..Len(ip) : IsDigit(ip[i])
                      /\ \A i \in 1..Len(fp) : IsDigit(fp[i])
                      /\ Len(ip) + Len(fp) > 0
        n == float_norm(digits_value(ip \o fp, 0), Len(fp))
    IN IF wellformed
       THEN [ok |-> TRUE, sign |-> IF Negative(t) THEN "-" ELSE "+", m |-> n.m, k |-> n.k]
       ELSE [ok |-> FALSE]

-----------------------------------------------------------------------------
(* The response grammar and the names the program compares text with *)

PrefixFunctionCall ==
    <<"F", "U", "N", "C", "T", "I", "O", "N", "_", "C", "A", "L", "L", ":">>

PrefixCalculationAnswer ==
    <<"C", "A", "L", "C", "U", "L", "A", "T", "I", "O", "N", "_">>
        \o <<"A", "N", "S", "W", "E", "R", ":">>

PrefixFinalAnswer ==
    <<"F", "I", "N", "A", "L", "_", "A", "N", "S", "W", "E", "R", ":">>

NameOpenPaint == <<"o", "p", "e", "n", "_", "p", "a", "i", "n", "t">>

NameSelectRectangleTool ==
    <<"s", "e", "l", "e", "c", "t", "_", "r", "e", "c", "t", "a", "n", "g", "l", "e">>
        \o <<"_", "t", "o", "o", "l">>

NameDrawRectangle ==
    <<"d", "r", "a", "w", "_", "r", "e", "c", "t", "a", "n", "g", "l", "e">>

NameAddTextInPaint ==
    <<"a", "d", "d", "_", "t", "e", "x", "t", "_", "i", "n", "_", "p", "a", "i", "n", "t">>

\* The tools after which the loop sleeps
PaintTools ==
    {NameOpenPaint, NameSelectRectangleTool, NameDrawRectangle, NameAddTextInPaint}

-----------------------------------------------------------------------------
(* The environment: the tool server's descriptors, the texts the completion *)
(* service may answer with and the results a tool invocation may return     *)

NameAdd == <<"a", "d", "d">>

NameScale == <<"s", "c", "a", "l", "e">>

NameIntListToExponentialSum ==
    <<"i", "n", "t", "_", "l", "i", "s", "t", "_", "t", "o", "_">>
        \o <<"e", "x", "p", "o", "n", "e", "n", "t", "i", "a", "l", "_", "s", "u", "m">>

NameStringsToCharsToInt ==
    <<"s", "t", "r", "i", "n", "g", "s", "_", "t", "o", "_">>
        \o <<"c", "h", "a", "r", "s", "_", "t", "o", "_", "i", "n", "t">>

NameUnknownTool == <<"u", "n", "k", "n", "o", "w", "n", "_", "t", "o", "o", "l">>

\* tools_result.tools: each descriptor has a name and an inputSchema, whose
\* 'properties' (when present) list the parameters in declaration order and
\* whose parameters may or may not declare a 'type'.
ToolSet ==
    << [name |-> NameAdd,
        properties |-> << [name |-> "a", type |-> "integer"],
                          [name |-> "b", type |-> "integer"] >>],
       [name |-> NameOpenPaint],
       [name |-> NameIntListToExponentialSum,
        properties |-> << [name |-> "int_list", type |-> "array"] >>],
       [name |-> NameStringsToCharsToInt,
        properties |-> << [name |-> "string"] >>],
       [name |-> NameScale,
        properties |-> << [name |-> "x", type |-> "number"],
                          [name |-> "label", type |-> "string"] >>] >>

Sp == <<" ">>
Nl == <<"\n">>
Answer42 == <<"[", "4", "2", "]">>

LineAdd23 == PrefixFunctionCall \o Sp \o NameAdd \o <<"|", "2", "|", "3">>

\* Scenario A: one well-formed call
TextAdd == LineAdd23

\* Scenario B, followed by a line the loop must not reach
TextFinalThenCall == PrefixFinalAnswer \o Sp \o Answer42 \o Nl \o LineAdd23

\* Scenario C, followed by a line the loop must not reach
TextUnknownThenCalc ==
    PrefixFunctionCall \o Sp \o NameUnknownTool \o <<"|", "1">> \o Nl
        \o PrefixCalculationAnswer \o <<" ", "[", "7", "]">>

\* a padded calculation line, a blank line, commentary, a lower-case prefix
\* and a call with too few tokens
TextMixed ==
    <<" ", " ">> \o PrefixCalculationAnswer \o Sp \o Answer42 \o <<"\t">> \o Nl
        \o Nl
        \o <<"t", "h", "e", " ", "a", "n", "s", "w", "e", "r">> \o Nl
        \o <<"f", "i", "n", "a", "l", "_", "a", "n", "s", "w", "e", "r", ":">> \o Nl
        \o PrefixFunctionCall \o Sp \o NameAdd \o <<"|", "2">>

\* more tokens than parameters, padded tokens, and a trailing newline
TextAddExcess ==
    PrefixFunctionCall \o Sp \o NameAdd \o <<" ", "|", " ", "2", " ", "|", "3", "|", "9">> \o Nl

\* a token that is no integer
TextAddMalformed == PrefixFunctionCall \o Sp \o NameAdd \o <<"|", "2", "|", "x">>

\* a paint tool without parameters, then the final answer
TextOpenPaint ==
    PrefixFunctionCall \o Sp \o NameOpenPaint \o Nl \o PrefixFinalAnswer \o Sp \o Answer42

TextArray ==
    PrefixFunctionCall \o Sp \o NameIntListToExponentialSum
        \o <<"|", "[", "1", ",", " ", "2", ",", " ", "3", "]">>

TextNumber ==
    PrefixFunctionCall \o Sp \o NameScale \o <<"|", "2", ".", "5", "0", "|", "I", "N">>

TextBlank == <<" ", "\n">>

\* The texts response.text may hold
ResponseMenu ==
    <<TextAdd, TextFinalThenCall, TextUnknownThenCalc, TextMixed, TextAddExcess,
      TextAddMalformed, TextOpenPaint, TextArray, TextNumber, TextBlank>>

\* The shapes session.call_tool may return: a content list of items with or
\* without a text attribute, a content that is no list, or no content at all.
ResultTextList ==
    [has_content |-> TRUE, is_list |-> TRUE,
     items |-> << [has_text |-> TRUE, text |-> <<"5">>] >>]

ResultMixedList ==
    [has_content |-> TRUE, is_list |-> TRUE,
     items |-> << [has_text |-> TRUE, text |-> <<"o", "k">>],
                  [has_text |-> FALSE, repr |-> <<"i", "m", "g">>] >>]

ResultScalarContent ==
    [has_content |-> TRUE, is_list |-> FALSE, content_repr |-> <<"5">>]

ResultNoContent == [has_content |-> FALSE, repr |-> <<"r", "e", "s">>]

\* What the server's tools answer when they do not raise
RawResults(func_name) ==
    IF func_name = NameAdd THEN {ResultTextList}
    ELSE IF func_name = NameOpenPaint THEN {ResultMixedList}
    ELSE IF func_name = NameIntListToExponentialSum THEN {ResultScalarContent}
    ELSE {ResultNoContent}

-----------------------------------------------------------------------------
(* Values of the program *)

None == [py |-> "None"]

PyStr(s) == [py |-> "str", s |-> s]

PyList(items) == [py |-> "list", items |-> items]

\* reset_state() with the assignment to iteration_response left out
reset_state_keeps_history ==
    [last_response |-> None, iteration |-> 0, iteration_response |-> iteration_response]

\* reset_state() with the assignment to last_response left out
reset_state_keeps_latest ==
    [last_response |-> last_response, iteration |-> 0, iteration_response |-> <<>>]

\* reset_state(): the value it gives the three globals
reset_state ==
    [last_response |-> None, iteration |-> 0, iteration_response |-> <<>>]

Lowercase ==
    <<"a", "b", "c", "d", "e", "f", "g", "h", "i", "j", "k", "l", "m",
      "n", "o", "p", "q", "r", "s", "t", "u", "v", "w", "x", "y", "z">>

Uppercase ==
    <<"A", "B", "C", "D", "E", "F", "G", "H", "I", "J", "K", "L", "M",
      "N", "O", "P", "Q", "R", "S", "T", "U", "V", "W", "X", "Y", "Z">>

\* str.upper()
upper(s) ==
    [i \in 1..Len(s) |->
        IF \E k \in 1..26 : Lowercase[k] = s[i]
        THEN Uppercase[CHOOSE k \in 1..26 : Lowercase[k] = s[i]]
        ELSE s[i]]

\* The if / elif chain testing line.upper().startswith(...)
ClassifyAnyCase(line) ==
    IF line = <<>> THEN "blank"
    ELSE IF startswith(upper(line), PrefixFunctionCall) THEN "FunctionCall"
    ELSE IF startswith(upper(line), PrefixCalculationAnswer) THEN "CalculationAnswer"
    ELSE IF startswith(upper(line), PrefixFinalAnswer) THEN "FinalAnswer"
    ELSE "other"

\* line.startswith(...) in the order of the if / elif chain, for a stripped line
Classify(line) ==
    IF line = <<>> THEN "blank"
    ELSE IF startswith(line, PrefixFunctionCall) THEN "FunctionCall"
    ELSE IF startswith(line, PrefixCalculationAnswer) THEN "CalculationAnswer"
    ELSE IF startswith(line, PrefixFinalAnswer) THEN "FinalAnswer"
    ELSE "other"

\* response.text.strip().split('\n')
ResponseLines(text) == split(strip(text), "\n")

\* _, function_info = line.split(":", 1); parts = [p.strip() for p in function_info.split("|")]
Parts(line) ==
    LET function_info == split_once(line, ":")[2]
        raw == split(function_info, "|")
    IN [i \in 1..Len(raw) |-> strip(raw[i])]

\* next((t for t in tools if t.name == func_name), None): index of the first match, 0 for None
RECURSIVE FindTool(_, _, _)
FindTool(ts, func_name, i) ==
    IF i > Len(ts) THEN 0
    ELSE IF ts[i].name = func_name THEN i
    ELSE FindTool(ts, func_name, i + 1)

\* tool.inputSchema.get('properties', {})
SchemaProperties(tool) ==
    IF "properties" \in DOMAIN tool THEN tool.properties ELSE <<>>

\* param_info.get('type', 'string')
ParamType(param_info) ==
    IF "type" \in DOMAIN param_info THEN param_info.type ELSE "string"

\* [int(x.strip()) for x in value]: the integers, or the first element that is none
RECURSIVE IntList(_, _)
IntList(xs, acc) ==
    IF xs = <<>> THEN [ok |-> TRUE, val |-> acc]
    ELSE LET r == py_int(strip(Head(xs)))
         IN IF r.ok THEN IntList(Tail(xs), Append(acc, r.val))
            ELSE [ok |-> FALSE, bad |-> strip(Head(xs))]

\* The if / elif chain on param_type with value.strip('[]') left out
CoerceValueKeepsBrackets(param_type, value) ==
    IF param_type = "integer" THEN
        LET r == py_int(value)
        IN IF r.ok THEN [ok |-> TRUE, val |-> [int |-> r.val]]
           ELSE [ok |-> FALSE, msg |-> [err |-> "invalid literal for int()", text |-> value]]
    ELSE IF param_type = "number" THEN
        LET r == py_float(value)
        IN IF r.ok THEN [ok |-> TRUE, val |-> [float |-> <<r.sign, r.m, r.k>>]]
           ELSE [ok |-> FALSE,
                 msg |-> [err |-> "could not convert string to float", text |-> value]]
    ELSE IF param_type = "array" THEN
        LET r == IntList(split(value, ","), <<>>)
        IN IF r.ok THEN [ok |-> TRUE, val |-> [array |-> r.val]]
           ELSE [ok |-> FALSE, msg |-> [err |-> "invalid literal for int()", text |-> r.bad]]
    ELSE [ok |-> TRUE, val |-> [str |-> value]]

\* The if / elif chain on param_type: the typed value of one token, or the
\* message of the ValueError that int() or float() raises.
CoerceValue(param_type, value) ==
    IF param_type = "integer" THEN
        LET r == py_int(value)
        IN IF r.ok THEN [ok |-> TRUE, val |-> [int |-> r.val]]
           ELSE [ok |-> FALSE, msg |-> [err |-> "invalid literal for int()", text |-> value]]
    ELSE IF param_type = "number" THEN
        LET r == py_float(value)
        IN IF r.ok THEN [ok |-> TRUE, val |-> [float |-> <<r.sign, r.m, r.k>>]]
           ELSE [ok |-> FALSE,
                 msg |-> [err |-> "could not convert string to float", text |-> value]]
    ELSE IF param_type = "array" THEN
        LET r == IntList(split(strip_chars(value, {"[", "]"}), ","), <<>>)
        IN IF r.ok THEN [ok |-> TRUE, val |-> [array |-> r.val]]
           ELSE [ok |-> FALSE, msg |-> [err |-> "invalid literal for int()", text |-> r.bad]]
    ELSE [ok |-> TRUE, val |-> [str |-> value]]

\* The loop over schema_properties followed by a check that no token is left
RECURSIVE CoerceArgsStrict(_, _, _, _)
CoerceArgsStrict(func_name, properties, params, arguments) ==
    IF properties = <<>> THEN
        IF params = <<>> THEN [ok |-> TRUE, arguments |-> arguments]
        ELSE [ok |-> FALSE, msg |-> [err |-> "Too many parameters provided for", text |-> func_name]]
    ELSE IF params = <<>> THEN
        [ok |-> FALSE, msg |-> [err |-> "Not enough parameters provided for", text |-> func_name]]
    ELSE LET param_info == Head(properties)
             v == CoerceValue(ParamType(param_info), Head(params))
         IN IF v.ok
            THEN CoerceArgsStrict(func_name, Tail(properties), Tail(params),
                                  Append(arguments, [name |-> param_info.name, value |-> v.val]))
            ELSE [ok |-> FALSE, msg |-> v.msg]

\* The loop over schema_properties: params.pop(0) feeds each declared parameter
\* in turn; arguments is the dict built so far, as its items in insertion order.
RECURSIVE CoerceArgs(_, _, _, _)
CoerceArgs(func_name, properties, params, arguments) ==
    IF properties = <<>> THEN [ok |-> TRUE, arguments |-> arguments]
    ELSE IF params = <<>> THEN
        [ok |-> FALSE, msg |-> [err |-> "Not enough parameters provided for", text |-> func_name]]
    ELSE LET param_info == Head(properties)
             v == CoerceValue(ParamType(param_info), Head(params))
         IN IF v.ok
            THEN CoerceArgs(func_name, Tail(properties), Tail(params),
                            Append(arguments, [name |-> param_info.name, value |-> v.val]))
            ELSE [ok |-> FALSE, msg |-> v.msg]

\* Lines 172-200 without the test of line 176: a name that is not in the
\* descriptor set is passed on with no arguments
PrepareCallSkipsLookup(ts, line) ==
    LET parts == Parts(line)
        func_name == parts[1]
        params == Tail(parts)
        t == FindTool(ts, func_name, 1)
    IN IF t = 0
       THEN [ok |-> TRUE, func_name |-> func_name, arguments |-> <<>>]
       ELSE LET r == CoerceArgs(func_name, SchemaProperties(ts[t]), params, <<>>)
            IN IF r.ok
               THEN [ok |-> TRUE, func_name |-> func_name, arguments |-> r.arguments]
               ELSE [ok |-> FALSE, func_name |-> func_name, msg |-> r.msg]

\* Lines 172-200: the tool lookup and the coercion of a FUNCTION_CALL line:
\* the arguments of the invocation, or the message of the exception raised.
PrepareCall(ts, line) ==
    LET parts == Parts(line)
        func_name == parts[1]
        params == Tail(parts)
        t == FindTool(ts, func_name, 1)
    IN IF t = 0
       THEN [ok |-> FALSE, func_name |-> func_name,
             msg |-> [err |-> "Unknown tool:", text |-> func_name]]
       ELSE LET r == CoerceArgs(func_name, SchemaProperties(ts[t]), params, <<>>)
            IN IF r.ok
               THEN [ok |-> TRUE, func_name |-> func_name, arguments |-> r.arguments]
               ELSE [ok |-> FALSE, func_name |-> func_name, msg |-> r.msg]

\* item.text if hasattr(item, 'text') else str(item)
ItemText(item) == IF item.has_text THEN item.text ELSE item.repr

\* Lines 205-214: iteration_result, a list of strings or one string
Normalize(result) ==
    IF result.has_content
    THEN IF result.is_list
         THEN PyList([i \in 1..Len(result.items) |-> ItemText(result.items[i])])
         ELSE PyStr(result.content_repr)
    ELSE PyStr(result.repr)

\* Lines 217-220: result_str
ResultStr(iteration_result) ==
    IF iteration_result.py = "list"
    THEN <<"[">> \o join(<<",", " ">>, iteration_result.items) \o <<"]">>
    ELSE iteration_result.s

\* The trace entry written with {iteration} instead of {iteration + 1}
TraceEntryZeroBased(it, func_name, arguments, result_str) ==
    [kind |-> "call", iter |-> it, func_name |-> func_name,
     arguments |-> arguments, result_str |-> result_str]

\* Lines 222-225: the trace entry of a successful call
TraceEntry(it, func_name, arguments, result_str) ==
    [kind |-> "call", iter |-> it + 1, func_name |-> func_name,
     arguments |-> arguments, result_str |-> result_str]

\* Line 233: the entry of a failed call
ErrorEntry(it, msg) == [kind |-> "error", iter |-> it + 1, msg |-> msg]

\* Line 239: a CALCULATION_ANSWER line is appended as it is
LineEntry(line) == [kind |-> "line", text |-> line]

\* Lines 147-151: the prompt body.  " ".join(iteration_response) puts every
\* history entry, in order, between the previous body and the trailing cue.
\* The history only grows during a run, so a segment names the entry it
\* holds by its index in iteration_response.
BuildQuery(lr, cq, history) ==
    IF lr = None THEN << [seg |-> "query"] >>
    ELSE cq \o [i \in 1..Len(history) |-> [seg |-> "entry", index |-> i]]
            \o << [seg |-> "cue"] >>

NoCall == [func_name |-> <<>>, arguments |-> <<>>]

-----------------------------------------------------------------------------
(* The state machine of main() *)

PcValues ==
    {"start", "connect", "list_tools", "while", "awaiting", "for", "calling",
     "sleeping", "end_body", "release", "except", "finally", "done"}

\* The module as loaded: lines 17-20
Init ==
    /\ pc = "start"
    /\ last_response = None
    /\ iteration = 0
    /\ iteration_response = <<>>
    /\ current_query = <<>>
    /\ tools = <<>>
    /\ session = "closed"
    /\ lines = <<>>
    /\ li = 0
    /\ call = NoCall
    /\ completions = 0
    /\ invocations = 0
    /\ final_seen = FALSE
    /\ exit_path = "none"
    /\ earlier_run = FALSE

\* Line 55: main() begins with reset_state()
Start ==
    /\ pc = "start"
    /\ last_response' = reset_state.last_response
    /\ iteration' = reset_state.iteration
    /\ iteration_response' = reset_state.iteration_response
    /\ pc' = "connect"
    /\ UNCHANGED <<earlier_run, current_query, tools, session, lines, li, call, completions,
                   invocations, final_seen, exit_path>>

\* Lines 65-69: the two async-with scopes are entered and the session initialized
OpenSession ==
    /\ pc = "connect"
    /\ session' = "open"
    /\ pc' = "list_tools"
    /\ UNCHANGED <<earlier_run, last_response, iteration, iteration_response, current_query, tools,
                   lines, li, call, completions, invocations, final_seen, exit_path>>

\* Lines 65-69 raise: nothing was acquired, control goes to line 251
OpenSessionFails ==
    /\ pc = "connect"
    /\ exit_path' = "exception"
    /\ pc' = "except"
    /\ UNCHANGED <<earlier_run, last_response, iteration, iteration_response, current_query, tools,
                   session, lines, li, call, completions, invocations, final_seen>>

\* Lines 73-143: the descriptors are fetched; the system prompt and the query are fixed texts
ListTools ==
    /\ pc = "list_tools"
    /\ tools' = ToolSet
    /\ pc' = "while"
    /\ UNCHANGED <<earlier_run, last_response, iteration, iteration_response, current_query, session,
                   lines, li, call, completions, invocations, final_seen, exit_path>>

\* Line 73 raises: the async-with scopes release the session on the way to line 251
ListToolsFails ==
    /\ pc = "list_tools"
    /\ session' = "released"
    /\ exit_path' = "exception"
    /\ pc' = "except"
    /\ UNCHANGED <<earlier_run, last_response, iteration, iteration_response, current_query, tools,
                   lines, li, call, completions, invocations, final_seen>>

\* The loop test written iteration <= max_iterations
BeginIterationOffByOne ==
    /\ pc = "while"
    /\ iteration <= max_iterations
    /\ current_query' = BuildQuery(last_response, current_query, iteration_response)
    /\ completions' = completions + 1
    /\ pc' = "awaiting"
    /\ UNCHANGED <<earlier_run, last_response, iteration, iteration_response, tools, session, lines,
                   li, call, invocations, final_seen, exit_path>>

\* Lines 145-157: the loop test, the prompt body and the start of the completion call
BeginIteration ==
    /\ pc = "while"
    /\ iteration < max_iterations
    /\ current_query' = BuildQuery(last_response, current_query, iteration_response)
    /\ completions' = completions + 1
    /\ pc' = "awaiting"
    /\ UNCHANGED <<earlier_run, last_response, iteration, iteration_response, tools, session, lines,
                   li, call, invocations, final_seen, exit_path>>

\* Line 145: the loop test fails
LoopExhausted ==
    /\ pc = "while"
    /\ ~(iteration < max_iterations)
    /\ exit_path' = "exhausted"
    /\ pc' = "release"
    /\ UNCHANGED <<earlier_run, last_response, iteration, iteration_response, current_query, tools,
                   session, lines, li, call, completions, invocations, final_seen>>

\* Number of history entries the lines of a text can produce
Weight(ls) ==
    Cardinality({i \in 1..Len(ls) :
                   Classify(strip(ls[i])) \in {"FunctionCall", "CalculationAnswer"}})

\* response.text.strip().split('\n') of each text of the menu
MenuLines == [r \in 1..Len(ResponseMenu) |-> ResponseLines(ResponseMenu[r])]

MenuWeight == [r \in 1..Len(ResponseMenu) |-> Weight(ResponseLines(ResponseMenu[r]))]

\* Lines 157-162: the completion call returns a text, which is stripped and split
CompletionReturns ==
    /\ pc = "awaiting"
    /\ \E r \in 1..Len(ResponseMenu) :
          /\ Len(iteration_response) + MenuWeight[r] <= MaxHistory
          /\ lines' = MenuLines[r]
    /\ li' = 1
    /\ pc' = "for"
    /\ UNCHANGED <<earlier_run, last_response, iteration, iteration_response, current_query, tools,
                   session, call, completions, invocations, final_seen, exit_path>>

\* The handler of line 245 going on with the next iteration instead of break
CompletionFailsContinues ==
    /\ pc = "awaiting"
    /\ exit_path' = "completion_failed"
    /\ pc' = "end_body"
    /\ UNCHANGED <<earlier_run, last_response, iteration, iteration_response, current_query, tools,
                   session, lines, li, call, completions, invocations, final_seen>>

\* Lines 40-45 and 245-247: the completion call times out or raises; the loop is left
CompletionFails ==
    /\ pc = "awaiting"
    /\ exit_path' = "completion_failed"
    /\ pc' = "release"
    /\ UNCHANGED <<earlier_run, last_response, iteration, iteration_response, current_query, tools,
                   session, lines, li, call, completions, invocations, final_seen>>

\* the stripped line the for loop is at
CurrentLine == strip(lines[li])

AtLine(kinds) ==
    /\ pc = "for"
    /\ li <= Len(lines)
    /\ Classify(CurrentLine) \in kinds

\* Line 162: the for loop has no line left
LinesDone ==
    /\ pc = "for"
    /\ li > Len(lines)
    /\ pc' = "end_body"
    /\ UNCHANGED <<earlier_run, last_response, iteration, iteration_response, current_query, tools,
                   session, lines, li, call, completions, invocations, final_seen,
                   exit_path>>

\* Lines 164-165 and the fall-through of the if / elif chain: nothing happens
SkipLine ==
    /\ AtLine({"blank", "other"})
    /\ li' = li + 1
    /\ UNCHANGED <<earlier_run, pc, last_response, iteration, iteration_response, current_query,
                   tools, session, lines, call, completions, invocations, final_seen,
                   exit_path>>

\* Line 202 without its await: the invocation is started and the loop goes on
\* with the next line while it runs
FunctionCallStartsNoAwait ==
    /\ AtLine({"FunctionCall"})
    /\ PrepareCall(tools, CurrentLine).ok
    /\ invocations' = invocations + 1
    /\ li' = li + 1
    /\ UNCHANGED <<earlier_run, pc, last_response, iteration, iteration_response,
                   current_query, tools, session, lines, call, completions, final_seen,
                   exit_path>>

\* Lines 169-202: a FUNCTION_CALL line whose tool is found and whose tokens are
\* coerced: session.call_tool is started
FunctionCallStarts ==
    /\ AtLine({"FunctionCall"})
    /\ LET c == PrepareCall(tools, CurrentLine)
       IN /\ c.ok
          /\ call' = [func_name |-> c.func_name, arguments |-> c.arguments]
    /\ invocations' = invocations + 1
    /\ pc' = "calling"
    /\ UNCHANGED <<earlier_run, last_response, iteration, iteration_response, current_query, tools,
                   session, lines, li, completions, final_seen, exit_path>>

\* The exception handler of a FUNCTION_CALL line leaving the while loop as well
CallFailedEndsRun(msg) ==
    /\ iteration_response' = Append(iteration_response, ErrorEntry(iteration, msg))
    /\ call' = NoCall
    /\ pc' = "release"
    /\ UNCHANGED <<earlier_run, last_response, iteration, current_query, tools, session, lines, li,
                   completions, invocations, final_seen, exit_path>>

\* The exception handler of a FUNCTION_CALL line forgetting the latest result
CallFailedClearsLatest(msg) ==
    /\ iteration_response' = Append(iteration_response, ErrorEntry(iteration, msg))
    /\ last_response' = None
    /\ call' = NoCall
    /\ pc' = "end_body"
    /\ UNCHANGED <<earlier_run, iteration, current_query, tools, session, lines, li,
                   completions, invocations, final_seen, exit_path>>

\* Lines 232-234: the exception handler of a FUNCTION_CALL line
CallFailed(msg) ==
    /\ iteration_response' = Append(iteration_response, ErrorEntry(iteration, msg))
    /\ call' = NoCall
    /\ pc' = "end_body"
    /\ UNCHANGED <<earlier_run, last_response, iteration, current_query, tools, session, lines, li,
                   completions, invocations, final_seen, exit_path>>

\* Lines 176-200 raise: unknown tool, too few tokens or a token that does not parse
FunctionCallRejected ==
    /\ AtLine({"FunctionCall"})
    /\ LET c == PrepareCall(tools, CurrentLine)
       IN /\ ~c.ok
          /\ CallFailed(c.msg)

\* Line 202 raises
ToolRaises ==
    /\ pc = "calling"
    /\ CallFailed([err |-> "call_tool raised"])

\* Lines 229-230 left out: no tool is followed by a delay
AfterCallNoDelay(func_name) == "for"

\* The position after a line has been handled without break
AfterCall(func_name) == IF func_name \in PaintTools THEN "sleeping" ELSE "for"

\* Lines 202-230: session.call_tool returns; the entry is appended, the result kept
ToolReturns ==
    /\ pc = "calling"
    /\ \E result \in RawResults(call.func_name) :
          LET iteration_result == Normalize(result)
          IN /\ iteration_response' =
                    Append(iteration_response,
                           TraceEntry(iteration, call.func_name, call.arguments,
                                      ResultStr(iteration_result)))
             /\ last_response' = iteration_result
    /\ pc' = AfterCall(call.func_name)
    /\ li' = IF AfterCall(call.func_name) = "sleeping" THEN li ELSE li + 1
    /\ call' = NoCall
    /\ UNCHANGED <<earlier_run, iteration, current_query, tools, session, lines, completions,
                   invocations, final_seen, exit_path>>

\* Line 230: asyncio.sleep(1) is over
SettleDelay ==
    /\ pc = "sleeping"
    /\ li' = li + 1
    /\ pc' = "for"
    /\ UNCHANGED <<earlier_run, last_response, iteration, iteration_response, current_query, tools,
                   session, lines, call, completions, invocations, final_seen, exit_path>>

\* Lines 236-239 keeping only the text behind the prefix
CalculationAnswerPayloadOnly ==
    /\ AtLine({"CalculationAnswer"})
    /\ LET payload == strip(split_once(CurrentLine, ":")[2])
       IN /\ last_response' = PyStr(payload)
          /\ iteration_response' = Append(iteration_response, LineEntry(payload))
    /\ li' = li + 1
    /\ UNCHANGED <<earlier_run, pc, iteration, current_query, tools, session, lines, call,
                   completions, invocations, final_seen, exit_path>>

\* Lines 236-239
CalculationAnswer ==
    /\ AtLine({"CalculationAnswer"})
    /\ last_response' = PyStr(CurrentLine)
    /\ iteration_response' = Append(iteration_response, LineEntry(CurrentLine))
    /\ li' = li + 1
    /\ UNCHANGED <<earlier_run, pc, iteration, current_query, tools, session, lines, call,
                   completions, invocations, final_seen, exit_path>>

\* The FINAL_ANSWER branch without its break
FinalAnswerContinues ==
    /\ AtLine({"FinalAnswer"})
    /\ final_seen' = TRUE
    /\ li' = li + 1
    /\ UNCHANGED <<earlier_run, pc, last_response, iteration, iteration_response, current_query, tools,
                   session, lines, call, completions, invocations, exit_path>>

\* Lines 241-243: break leaves the for loop, control continues at line 249
FinalAnswer ==
    /\ AtLine({"FinalAnswer"})
    /\ final_seen' = TRUE
    /\ pc' = "end_body"
    /\ UNCHANGED <<earlier_run, last_response, iteration, iteration_response, current_query, tools,
                   session, lines, li, call, completions, invocations, exit_path>>

\* The loop body without line 249
EndBodyNoIncrement ==
    /\ pc = "end_body"
    /\ lines' = <<>>
    /\ li' = 0
    /\ pc' = "while"
    /\ UNCHANGED <<earlier_run, last_response, iteration, iteration_response, current_query,
                   tools, session, call, completions, invocations, final_seen, exit_path>>

\* Line 249; the list the for statement went through is dropped with it
EndBody ==
    /\ pc = "end_body"
    /\ iteration' = iteration + 1
    /\ lines' = <<>>
    /\ li' = 0
    /\ pc' = "while"
    /\ UNCHANGED <<earlier_run, last_response, iteration_response, current_query, tools, session,
                   call, completions, invocations, final_seen, exit_path>>

\* The loop is left without the scopes of lines 65-67 closing the session
ReleaseSessionSkipped ==
    /\ pc = "release"
    /\ pc' = "finally"
    /\ UNCHANGED <<earlier_run, last_response, iteration, iteration_response, current_query,
                   tools, session, lines, li, call, completions, invocations, final_seen,
                   exit_path>>

\* Lines 65-67: the async-with scopes are left after the loop
ReleaseSession ==
    /\ pc = "release"
    /\ session' = "released"
    /\ pc' = "finally"
    /\ UNCHANGED <<earlier_run, last_response, iteration, iteration_response, current_query, tools,
                   lines, li, call, completions, invocations, final_seen, exit_path>>

\* Lines 251-254
HandleException ==
    /\ pc = "except"
    /\ pc' = "finally"
    /\ UNCHANGED <<earlier_run, last_response, iteration, iteration_response, current_query, tools,
                   session, lines, li, call, completions, invocations, final_seen,
                   exit_path>>

\* Lines 255-256: reset_state() and return, which ends the life of the locals
Finally ==
    /\ pc = "finally"
    /\ last_response' = reset_state.last_response
    /\ iteration' = reset_state.iteration
    /\ iteration_response' = reset_state.iteration_response
    /\ current_query' = <<>>
    /\ tools' = <<>>
    /\ lines' = <<>>
    /\ li' = 0
    /\ pc' = "done"
    /\ UNCHANGED <<earlier_run, session, call, completions, invocations, final_seen, exit_path>>

Next ==
    \/ Start
    \/ OpenSession
    \/ OpenSessionFails
    \/ ListTools
    \/ ListToolsFails
    \/ BeginIteration
    \/ LoopExhausted
    \/ CompletionReturns
    \/ CompletionFails
    \/ LinesDone
    \/ SkipLine
    \/ FunctionCallStarts
    \/ FunctionCallRejected
    \/ ToolRaises
    \/ ToolReturns
    \/ SettleDelay
    \/ CalculationAnswer
    \/ FinalAnswer
    \/ EndBody
    \/ ReleaseSession
    \/ HandleException
    \/ Finally

Spec == Init /\ [][Next]_vars

\* main leaves the point it stands at: the statement it is about to run, or
\* the line of the response the for loop is about to take
MainMoves ==
    /\ pc # "done"
    /\ pc' \in PcValues
    /\ li' \in 0..(li + 1)
    /\ <<pc', li'>> # <<pc, li>>

\* One run in which main does not stand for ever at a point before its
\* return.  Between two awaits the interpreter runs main's statements; the
\* event loop resumes main when what it awaits is done: a session operation
\* and a tool invocation return or raise, wait_for (line 26) ends the wait for
\* the completion after timeout seconds at the latest, the sleep of line 230
\* ends.  Every state of Spec but the return has a step of Next, and every
\* such step changes pc or li.
FairSpec == Spec /\ WF_<<pc, li>>(MainMoves)

\* Lines 54 and 259: main() is called again after it has returned.  The module
\* globals are what the earlier run left; the locals of the new call are fresh.
RunAgain ==
    /\ pc = "done"
    /\ pc' = "start"
    /\ earlier_run' = TRUE
    /\ session' = "closed"
    /\ call' = NoCall
    /\ completions' = 0
    /\ invocations' = 0
    /\ final_seen' = FALSE
    /\ exit_path' = "none"
    /\ UNCHANGED <<last_response, iteration, iteration_response, current_query, tools,
                   lines, li>>

NextRuns == Next \/ RunAgain

\* Any number of runs of main(), one after the other
SpecRuns == Init /\ [][NextRuns]_vars

-----------------------------------------------------------------------------
(* One FUNCTION_CALL line with one token against one declared parameter:  *)
(* the for loop of an open session stands at the line, for every token of *)
(* a family of texts and every declared type of a family of types         *)

\* Largest number of comma-separated pieces of a token
MaxElems == 3

\* the pieces: numerals, a padded numeral, a signed one, a word, nothing
Elems ==
    << <<"1">>, <<"2", "0">>, <<" ", "3">>, <<"0", "7">>, <<"-", "4">>, <<"x">>, <<>> >>

\* how many opening and closing brackets stand around the pieces
Wraps == {<<0, 0>>, <<1, 1>>, <<2, 2>>, <<1, 0>>, <<0, 1>>}

Brackets(c, n) == [i \in 1..n |-> c]

ElemSeqs == UNION {[1..n -> 1..Len(Elems)] : n \in 0..MaxElems}

\* the tokens a FUNCTION_CALL line may carry
Tokens ==
    {Brackets("[", w[1]) \o join(<<",">>, [i \in 1..Len(f) |-> Elems[f[i]]])
        \o Brackets("]", w[2]) : w \in Wraps, f \in ElemSeqs}

\* what a descriptor may declare for its parameter, the last one without a type
ParamInfos ==
    {[name |-> "p", type |-> ty] : ty \in {"integer", "number", "array", "string", "boolean"}}
        \cup {[name |-> "p"]}

NameTool == <<"t">>

\* main waits in the for loop of its first iteration at a one-line response
InitCoerce ==
    /\ pc = "for"
    /\ last_response = None
    /\ iteration = 0
    /\ iteration_response = <<>>
    /\ current_query = << [seg |-> "query"] >>
    /\ \E param_info \in ParamInfos :
          tools = << [name |-> NameTool, properties |-> <<param_info>>] >>
    /\ session = "open"
    /\ \E token \in Tokens :
          lines = ResponseLines(PrefixFunctionCall \o Sp \o NameTool \o <<"|">> \o token)
    /\ li = 1
    /\ call = NoCall
    /\ completions = 1
    /\ invocations = 0
    /\ final_seen = FALSE
    /\ exit_path = "none"
    /\ earlier_run = FALSE

NextCoerce == FunctionCallStarts \/ FunctionCallRejected

SpecCoerce == InitCoerce /\ [][NextCoerce]_vars

TypeOK ==
    /\ pc \in PcValues
    /\ iteration \in 0..max_iterations
    /\ session \in {"closed", "open", "released"}

-----------------------------------------------------------------------------
(* Properties *)

\* C1: once a FINAL_ANSWER line has been processed, no further completion call
\* and no further tool invocation is started, whatever the iteration counter is.
C1_FinalAnswerEndsRun ==
    [][final_seen => (completions' = completions /\ invocations' = invocations)]_vars

\* C2: whenever main has returned, by whichever path, the three globals hold
\* their initial values: empty history, no latest result, counter 0.
C2_StateResetOnReturn ==
    pc = "done" =>
        /\ iteration_response = <<>>
        /\ last_response = None
        /\ iteration = 0

\* a run that invoked tools and answered finally has returned after using up its iterations
C2_Witness ==
    /\ pc = "done"
    /\ exit_path = "exhausted"
    /\ invocations > 0
    /\ final_seen

\* C3: the counter starts at 0; until the closing reset it changes only at
\* the end of a loop body and then by exactly +1; it never exceeds 9; a
\* completion call starts only while it is below 9; at 9 the loop is left; and
\* a run that leaves the loop this way without a FINAL_ANSWER line has made
\* exactly 9 completion calls.
C3_IterationCounter ==
    /\ iteration = 0
    /\ [][ /\ (pc # "finally" /\ iteration' # iteration) => pc = "end_body"
           /\ pc = "end_body" => iteration' = iteration + 1
           /\ iteration' <= 9
           /\ completions' # completions =>
                 (iteration < 9 /\ completions' = completions + 1)
           /\ (pc = "while" /\ iteration = 9) =>
                 (pc' = "release" /\ exit_path' = "exhausted")
           /\ (exit_path' = "exhausted" /\ ~final_seen') => completions' = 9
         ]_vars

\* the loop was left at the bound after 9 completion calls and no FINAL_ANSWER line
C3_Witness ==
    /\ pc = "release"
    /\ exit_path = "exhausted"
    /\ ~final_seen
    /\ iteration = 9
    /\ completions = 9

\* the entries of the history that report a failure of the loop body numbered n
ErrorsOf(n) ==
    {i \in 1..Len(iteration_response) :
        iteration_response[i].kind = "error" /\ iteration_response[i].iter = n}

\* a FUNCTION_CALL line is being given up: no tool was started for it
RejectedStep ==
    /\ pc = "for"
    /\ li <= Len(lines)
    /\ startswith(strip(lines[li]), PrefixFunctionCall)
    /\ pc' # "calling"

\* the invocation in flight ends without a result
RaisedStep == pc = "calling" /\ pc' \notin {"for", "sleeping"}

\* the history gains exactly one entry, an error entry of the current loop body
OneErrorAppended ==
    /\ Len(iteration_response') = Len(iteration_response) + 1
    /\ SubSeq(iteration_response', 1, Len(iteration_response)) = iteration_response
    /\ iteration_response'[Len(iteration_response')].kind = "error"
    /\ iteration_response'[Len(iteration_response')].iter = iteration + 1

\* C4: a FUNCTION_CALL line that fails (unknown tool, too few or malformed
\* tokens, or an error of the remote invocation) appends exactly one error entry
\* and does not end the run: the loop body is ended, the counter is incremented
\* and, if it is still below 9, the next completion call is started.
C4_FailedCallContinues ==
    [][ /\ (RejectedStep \/ RaisedStep) =>
              /\ OneErrorAppended
              /\ pc' = "end_body"
              /\ exit_path' = "none"
        /\ pc = "end_body" => (iteration' = iteration + 1 /\ pc' = "while")
        /\ (pc = "while" /\ iteration < 9) =>
              (pc' = "awaiting" /\ completions' = completions + 1)
      ]_vars

\* a completion call is in flight right after a loop body whose call failed
C4_Witness ==
    /\ pc = "awaiting"
    /\ iteration >= 1
    /\ ErrorsOf(iteration) # {}

\* C5: when the completion call fails the loop is left at once with the state
\* as it was; from then on no completion call and no tool invocation is
\* started, and when main has returned the state is reset.
C5_CompletionFailureEndsRun ==
    [][ /\ (pc = "awaiting" /\ pc' # "for") =>
              /\ pc' = "release"
              /\ UNCHANGED <<iteration_response, last_response, iteration,
                             completions, invocations>>
        /\ exit_path = "completion_failed" =>
              /\ pc' \in {"finally", "done"}
              /\ UNCHANGED <<completions, invocations>>
        /\ (exit_path = "completion_failed" /\ pc' = "done") =>
              /\ iteration_response' = <<>>
              /\ last_response' = None
              /\ iteration' = 0
      ]_vars

\* main has returned after a completion call failed in a later iteration of a run that used a tool
C5_Witness ==
    /\ pc = "done"
    /\ exit_path = "completion_failed"
    /\ completions > 1
    /\ invocations > 0

\* the positions inside the for loop over the lines of a response
InLines == pc \in {"for", "calling", "sleeping"}

\* C6: the lines of a response are taken in order, and the for loop never
\* stands behind a FINAL_ANSWER line or behind a failed call of the same
\* response; once the loop body has ended nothing of the response is applied.
C6_StopsAtFirstStop ==
    /\ [](InLines =>
            /\ \A j \in 1..(li - 1) :
                  ~startswith(strip(lines[j]), PrefixFinalAnswer)
            /\ ErrorsOf(iteration + 1) = {})
    /\ [][ /\ (InLines /\ InLines') => li' \in {li, li + 1}
           /\ pc = "end_body" =>
                 UNCHANGED <<iteration_response, last_response, invocations>>
         ]_vars

\* the loop body ended on a failed call while a line of the response was left
C6_Witness ==
    /\ pc = "end_body"
    /\ li < Len(lines)
    /\ ErrorsOf(iteration + 1) # {}

\* C7: the prompt of the iteration that follows a failed call contains the
\* error entry of that call.
C7_PromptShowsFailure ==
    pc = "awaiting" =>
        \A i \in ErrorsOf(iteration) :
            \E k \in 1..Len(current_query) :
                /\ current_query[k].seg = "entry"
                /\ current_query[k].index = i

\* C8: a line is classified by its text after trimming: one of the three
\* prefixes, in upper case, yields the directive of that kind (a call is
\* started or rejected, a calculation is recorded, a final answer ends the
\* loop body); a blank line or a line with none of them changes nothing.
C8_LineClassification ==
    [][ (pc = "for" /\ li <= Len(lines)) =>
          LET line == strip(lines[li])
          IN IF startswith(line, PrefixFunctionCall) THEN
                 \/ pc' = "calling" /\ invocations' = invocations + 1 /\ li' = li
                 \/ pc' = "end_body" /\ OneErrorAppended
             ELSE IF startswith(line, PrefixCalculationAnswer) THEN
                 /\ iteration_response' = Append(iteration_response, LineEntry(line))
                 /\ last_response' = PyStr(line)
                 /\ pc' = "for" /\ li' = li + 1
             ELSE IF startswith(line, PrefixFinalAnswer) THEN
                 /\ final_seen'
                 /\ pc' = "end_body"
                 /\ UNCHANGED <<iteration_response, last_response, invocations>>
             ELSE
                 /\ pc' = "for" /\ li' = li + 1
                 /\ UNCHANGED <<iteration_response, last_response, iteration, call,
                                completions, invocations, final_seen, exit_path>>
      ]_vars

\* a padded calculation line was recorded and a blank line, a commentary line
\* and a line with a lower-case prefix were passed over
C8_Witness ==
    /\ pc = "for"
    /\ li = 5
    /\ Len(lines) = 5
    /\ startswith(strip(lines[4]), <<"f", "i", "n", "a", "l">>)
    /\ iteration_response = << LineEntry(PrefixCalculationAnswer \o Sp \o Answer42) >>
    /\ ~final_seen

\* C9: for a FUNCTION_CALL line naming a tool with N declared parameters and
\* carrying M tokens: if M < N the call is rejected with an error entry and no
\* invocation; if M >= N and the first N tokens coerce, the call is started,
\* the i-th parameter holding the coerced i-th token, whatever tokens follow.
C9_PositionalArguments ==
    [][ (pc = "for" /\ li <= Len(lines)
            /\ startswith(strip(lines[li]), PrefixFunctionCall)) =>
          LET parts == Parts(strip(lines[li]))
              t == FindTool(tools, parts[1], 1)
              properties == SchemaProperties(tools[t])
              N == Len(properties)
              M == Len(parts) - 1
              coerced(i) == CoerceValue(ParamType(properties[i]), parts[i + 1])
          IN t # 0 =>
               /\ M < N =>
                     /\ OneErrorAppended
                     /\ pc' = "end_body"
                     /\ invocations' = invocations
               /\ (M >= N /\ \A i \in 1..N : coerced(i).ok) =>
                     /\ pc' = "calling"
                     /\ call'.func_name = parts[1]
                     /\ call'.arguments =
                           [i \in 1..N |-> [name |-> properties[i].name,
                                            value |-> coerced(i).val]]
      ]_vars

\* add(a, b) was started from a line with three tokens
C9_Witness ==
    /\ pc = "calling"
    /\ Len(Parts(strip(lines[li]))) = 4
    /\ call = [func_name |-> NameAdd,
               arguments |-> << [name |-> "a", value |-> [int |-> 2]],
                                [name |-> "b", value |-> [int |-> 3]] >>]

\* C10: when an invocation returns while the counter is c, exactly one entry
\* is appended; it reports iteration c + 1, the tool name, the coerced arguments
\* and the display string of the result, and the latest result is that result.
C10_TraceEntry ==
    [][ (pc = "calling" /\ pc' \in {"for", "sleeping"}) =>
          /\ \E result \in RawResults(call.func_name) :
                last_response' = Normalize(result)
          /\ iteration_response' =
                Append(iteration_response,
                       [kind |-> "call", iter |-> iteration + 1,
                        func_name |-> call.func_name, arguments |-> call.arguments,
                        result_str |-> ResultStr(last_response')])
          /\ iteration' = iteration
      ]_vars

\* Scenario A in the second iteration: add(2, 3) returned the one-item list ["5"]
C10_Witness ==
    /\ pc = "for"
    /\ iteration = 1
    /\ last_response = PyList(<< <<"5">> >>)
    /\ Len(iteration_response) >= 1
    /\ iteration_response[Len(iteration_response)] =
          [kind |-> "call", iter |-> 2, func_name |-> NameAdd,
           arguments |-> << [name |-> "a", value |-> [int |-> 2]],
                            [name |-> "b", value |-> [int |-> 3]] >>,
           result_str |-> <<"[", "5", "]">>]

\* C11: every run, whatever came before it, begins with empty history, no
\* latest result and counter 0; the body of its first prompt is the task query
\* alone; during a run the history only grows by appending, and every entry a
\* prompt holds is an entry of the current history, so that no entry of an
\* earlier run is in a prompt of a later run.
C11_NoLeakAcrossRuns ==
    /\ [](pc = "awaiting" =>
            \A k \in 1..Len(current_query) :
                current_query[k].seg = "entry" =>
                    current_query[k].index \in 1..Len(iteration_response))
    /\ [][ /\ pc = "start" =>
                 /\ iteration_response' = <<>>
                 /\ last_response' = None
                 /\ iteration' = 0
           /\ (pc = "while" /\ completions = 0 /\ pc' = "awaiting") =>
                 current_query' = << [seg |-> "query"] >>
           /\ pc \notin {"start", "finally", "done"} =>
                 /\ Len(iteration_response') >= Len(iteration_response)
                 /\ SubSeq(iteration_response', 1, Len(iteration_response))
                       = iteration_response
         ]_vars

\* the second prompt of a later run, holding the one entry that run has made
C11_Witness ==
    /\ earlier_run
    /\ pc = "awaiting"
    /\ completions = 2
    /\ Len(iteration_response) = 1
    /\ \E k \in 1..Len(current_query) : current_query[k].seg = "entry"

\* C12: in a run the session goes from closed to open at most once, before any
\* completion call, and from open to released; the tool list is fetched only
\* right after the session was opened, while no list is held and before any
\* completion call; completion calls and tool invocations happen only while
\* the session is open; and once control is in the except or finally clause
\* or main has returned, the session is not open: it was released on every
\* path that had opened it.
C12_SessionScope ==
    /\ [](pc \in {"except", "finally", "done"} =>
            /\ session # "open"
            /\ (exit_path \in {"exhausted", "completion_failed"} \/ final_seen)
                  => session = "released")
    /\ [](pc = "list_tools" => (tools = <<>> /\ completions = 0 /\ session = "open"))
    /\ [][ /\ session' # session =>
                 \/ session = "closed" /\ session' = "open" /\ completions = 0
                 \/ session = "open" /\ session' = "released"
           /\ pc' = "list_tools" => pc \in {"connect", "list_tools"}
           /\ tools' # tools => (pc = "list_tools" \/ pc = "finally")
           /\ completions' # completions => (session = "open" /\ tools # <<>>)
           /\ invocations' # invocations => (session = "open" /\ session' = "open")
           /\ session = "released" => invocations' = invocations
         ]_vars

\* main has returned after list_tools raised: the session it had opened is released
C12_Witness ==
    /\ pc = "done"
    /\ exit_path = "exception"
    /\ session = "released"

\* C13: the latest result is a single string whenever there is one: after an
\* invocation whose normalized result is a sequence of strings it is the
\* display string "[e1, e2, ...]" that the trace entry reports.
C13_LatestResultIsString ==
    /\ last_response # None => last_response.py = "str"
    /\ (last_response # None /\ iteration_response # <<>>
           /\ iteration_response[Len(iteration_response)].kind = "call") =>
          last_response = PyStr(iteration_response[Len(iteration_response)].result_str)

\* C14: when the for loop is at a line that, trimmed as line 163 trims it,
\* begins with CALCULATION_ANSWER:, the step stores that whole line, prefix
\* included, as the latest result and appends it as the one new history entry;
\* the counter, the invocations and the completion calls stay as they are and
\* the loop goes on with the next line of the same response.
C14_CalculationAnswerRecorded ==
    [][ (pc = "for" /\ li <= Len(lines)
            /\ startswith(strip(lines[li]), PrefixCalculationAnswer)) =>
          /\ last_response' = [py |-> "str", s |-> strip(lines[li])]
          /\ Len(iteration_response') = Len(iteration_response) + 1
          /\ SubSeq(iteration_response', 1, Len(iteration_response)) = iteration_response
          /\ iteration_response'[Len(iteration_response')] =
                [kind |-> "line", text |-> strip(lines[li])]
          /\ UNCHANGED <<iteration, invocations, completions, lines, final_seen,
                         exit_path, session>>
          /\ pc' = "for"
          /\ li' = li + 1
      ]_vars

\* the first line of a response, a padded calculation line, has been recorded
\* and the loop stands at the second of its five lines
C14_Witness ==
    /\ pc = "for"
    /\ li = 2
    /\ Len(lines) = 5
    /\ last_response = PyStr(PrefixCalculationAnswer \o Sp \o Answer42)
    /\ iteration_response[Len(iteration_response)] =
          LineEntry(PrefixCalculationAnswer \o Sp \o Answer42)
    /\ invocations = 0

\* C15: a completion call is in flight exactly while main waits at line 157
\* and a tool invocation exactly while it waits at line 202, so at most one is
\* in flight.  An invocation starts only from the for loop, that is after the
\* completion call of the iteration has returned and with no invocation
\* pending, and main then waits for it; a completion call starts only at the
\* loop test, when the lines of the previous response are done with and no
\* invocation is pending; while either call is in flight none is started.
C15_OneCallInFlight ==
    /\ []((call # NoCall) <=> (pc = "calling"))
    /\ [](pc \in {"for", "calling", "sleeping", "end_body"} => completions = iteration + 1)
    /\ [][ /\ invocations' # invocations =>
                 /\ pc = "for" /\ pc' = "calling"
                 /\ invocations' = invocations + 1
                 /\ completions' = completions
           /\ completions' # completions =>
                 /\ pc = "while" /\ pc' = "awaiting"
                 /\ call = NoCall /\ lines = <<>>
                 /\ invocations' = invocations
           /\ pc \in {"awaiting", "calling"} =>
                 /\ invocations' = invocations
                 /\ completions' = completions
           /\ pc = "calling" => pc' \in {"for", "sleeping", "end_body"}
           /\ pc = "awaiting" => pc' \in {"for", "release"}
         ]_vars

\* the second invocation of a run is in flight, in its second iteration
C15_Witness ==
    /\ pc = "calling"
    /\ invocations = 2
    /\ completions = 2
    /\ iteration = 1

\* C16: when an invocation returns, main sleeps if and only if the tool is
\* open_paint, select_rectangle_tool, draw_rectangle or add_text_in_paint;
\* while it sleeps nothing of the state changes, and only when the sleep is
\* over the loop moves to the next line (and from there to the next completion
\* call).  Nothing but a returned invocation of one of these tools leads into
\* the sleep: not a failed invocation, not a rejected call, not another tool.
C16_SettleDelay ==
    [][ /\ (pc = "calling" /\ pc' # "end_body") =>
              IF call.func_name \in {NameOpenPaint, NameSelectRectangleTool,
                                     NameDrawRectangle, NameAddTextInPaint}
              THEN pc' = "sleeping" /\ li' = li
              ELSE pc' = "for" /\ li' = li + 1
        /\ pc' = "sleeping" =>
              /\ pc = "calling"
              /\ call.func_name \in {NameOpenPaint, NameSelectRectangleTool,
                                      NameDrawRectangle, NameAddTextInPaint}
              /\ iteration_response'[Len(iteration_response')].kind = "call"
        /\ pc = "sleeping" =>
              /\ pc' = "for"
              /\ li' = li + 1
              /\ UNCHANGED <<last_response, iteration, iteration_response, current_query,
                             completions, invocations, final_seen, exit_path, lines>>
        /\ (pc = "calling" /\ pc' = "end_body") =>
              iteration_response'[Len(iteration_response')].kind = "error"
        /\ pc = "end_body" => pc' = "while"
      ]_vars

\* main sleeps after open_paint returned
C16_Witness ==
    /\ pc = "sleeping"
    /\ iteration_response # <<>>
    /\ iteration_response[Len(iteration_response)].kind = "call"
    /\ iteration_response[Len(iteration_response)].func_name = NameOpenPaint

\* some character of t can be no part of a decimal numeral
NonNumeric(t) ==
    \E i \in 1..Len(t) : ~IsDigit(t[i]) /\ t[i] \notin {"+", "-", " "}

\* t is a text without brackets between one opening and one closing bracket
OnePair(t) ==
    /\ Len(t) >= 2
    /\ t[1] = "[" /\ t[Len(t)] = "]"
    /\ \A i \in 2..(Len(t) - 1) : t[i] \notin {"[", "]"}

\* the call was started and its one argument is v
StartedWith(v) ==
    /\ pc' = "calling"
    /\ invocations' = invocations + 1
    /\ call'.func_name = NameTool
    /\ call'.arguments = << [name |-> "p", value |-> v] >>

\* the call was given up with an error entry and nothing was invoked
CoercionFailed ==
    /\ pc' = "end_body"
    /\ invocations' = invocations
    /\ call' = NoCall
    /\ iteration_response'[Len(iteration_response')].kind = "error"

\* C17: for a call of a tool with one declared parameter and the token t:
\* against type integer, t of decimal digits gives the integer it denotes and
\* a t with a non-numeric character fails; against type array, t of the form
\* "[" pieces "]" gives the integers of its comma-separated trimmed pieces, in
\* order, when all are decimal digits, and fails when a piece has a
\* non-numeric character; against a type other than integer, number and array
\* (or none declared) the argument is the string t.
C17_CoercionByType ==
    [][ (pc = "for" /\ li <= Len(lines)
            /\ startswith(strip(lines[li]), PrefixFunctionCall)
            /\ Len(tools) = 1 /\ tools[1].name = NameTool
            /\ Len(Parts(strip(lines[li]))) = 2) =>
          LET t == Parts(strip(lines[li]))[2]
              param_info == tools[1].properties[1]
              ty == IF "type" \in DOMAIN param_info THEN param_info.type ELSE "none"
              pieces == split(SubSeq(t, 2, Len(t) - 1), ",")
          IN /\ (ty = "integer" /\ AllDigits(t)) =>
                    StartedWith([int |-> digits_value(t, 0)])
             /\ (ty = "integer" /\ NonNumeric(t)) => CoercionFailed
             /\ (ty = "array" /\ OnePair(t)
                    /\ \A i \in 1..Len(pieces) : AllDigits(strip(pieces[i]))) =>
                    StartedWith([array |-> [i \in 1..Len(pieces) |->
                                               digits_value(strip(pieces[i]), 0)]])
             /\ (ty = "array" /\ OnePair(t)
                    /\ \E i \in 1..Len(pieces) : NonNumeric(strip(pieces[i]))) =>
                    CoercionFailed
             /\ ty \notin {"integer", "number", "array"} => StartedWith([str |-> t])
      ]_vars

\* "[1,20, 3]" against an array parameter: the call is started with [1, 20, 3]
C17_Witness ==
    /\ pc = "calling"
    /\ Parts(strip(lines[li]))[2] = <<"[", "1", ",", "2", "0", ",", " ", "3", "]">>
    /\ call = [func_name |-> NameTool,
               arguments |-> << [name |-> "p", value |-> [array |-> <<1, 20, 3>>]] >>]

\* C18: every run comes to the point where main has returned with empty
\* history, no latest result and counter 0, and at no time has a run started
\* more than 9 loop bodies (each starts with a completion call).
C18_RunTerminates ==
    /\ <>(pc = "done" /\ iteration_response = <<>> /\ last_response = None
            /\ iteration = 0)
    /\ [](completions <= 9)

\* main has returned after its first completion call failed or timed out
C18_Witness ==
    /\ pc = "done"
    /\ exit_path = "completion_failed"
    /\ completions = 1
    /\ iteration_response = <<>>

\* the descriptors whose name is the first part of the FUNCTION_CALL line at li
Named == {t \in 1..Len(tools) : tools[t].name = Parts(strip(lines[li]))[1]}

\* every parameter the first descriptor of that name declares has a token
\* on the line at li, and the token coerces to the declared type
AllCoerce ==
    LET parts == Parts(strip(lines[li]))
        t == CHOOSE n \in Named : \A m \in Named : n <= m
        properties == IF "properties" \in DOMAIN tools[t] THEN tools[t].properties ELSE <<>>
    IN /\ Len(parts) - 1 >= Len(properties)
       /\ \A i \in 1..Len(properties) :
             CoerceValue(IF "type" \in DOMAIN properties[i] THEN properties[i].type
                         ELSE "string", parts[i + 1]).ok

\* C19: an invocation is started only by the step that handles a
\* FUNCTION_CALL line whose tool name is in the descriptor set and whose
\* declared parameters all coerce, and the step starts one invocation; a line
\* naming an unknown tool or with a parameter that is missing or does not
\* coerce is given up without an invocation; and the loop never handles the
\* same line again, so a line causes at most one invocation.
C19_InvocationOnlyAfterCoercion ==
    [][ /\ invocations' # invocations =>
              /\ invocations' = invocations + 1
              /\ pc = "for" /\ li <= Len(lines)
              /\ startswith(strip(lines[li]), PrefixFunctionCall)
              /\ Named # {}
              /\ AllCoerce
              /\ pc' = "calling" /\ li' = li
        /\ (pc = "for" /\ li <= Len(lines)
              /\ startswith(strip(lines[li]), PrefixFunctionCall)
              /\ (Named = {} \/ ~AllCoerce)) =>
              /\ invocations' = invocations
              /\ pc' = "end_body"
        /\ pc = "calling" =>
              /\ invocations' = invocations
              /\ pc' = "for" => li' = li + 1
              /\ pc' = "sleeping" => li' = li
        /\ pc = "sleeping" => (pc' = "for" /\ li' = li + 1)
        /\ (pc = "for" /\ pc' = "for") => li' = li + 1
      ]_vars

\* after one invocation that returned, a call whose token is no integer was
\* given up: the count of invocations is still 1
C19_Witness ==
    /\ pc = "end_body"
    /\ invocations = 1
    /\ iteration_response # <<>>
    /\ iteration_response[Len(iteration_response)].kind = "error"
    /\ iteration_response[Len(iteration_response)].msg.err = "invalid literal for int()"

\* C20: the step in which a FUNCTION_CALL line fails, before or in the
\* invocation, leaves the latest result and the counter as they are, leaves
\* every history entry there was in its place and appends one entry, an error
\* entry; the prompt body and the tool list are not touched either.
C20_FailedCallFrame ==
    [][ (RejectedStep \/ RaisedStep) =>
          /\ last_response' = last_response
          /\ iteration' = iteration
          /\ Len(iteration_response') = Len(iteration_response) + 1
          /\ \A i \in 1..Len(iteration_response) :
                iteration_response'[i] = iteration_response[i]
          /\ iteration_response'[Len(iteration_response')].kind = "error"
          /\ UNCHANGED <<current_query, tools, completions>>
      ]_vars

\* in the second iteration a call failed after add(2, 3) had returned in the
\* first: the latest result is still that of add
C20_Witness ==
    /\ pc = "end_body"
    /\ iteration = 1
    /\ last_response = PyList(<< <<"5">> >>)
    /\ Len(iteration_response) = 2
    /\ iteration_response[1].kind = "call"
    /\ iteration_response[2].kind = "error"
    /\ iteration_response[2].iter = 2

====
